---- MODULE Spec2Model ----
(***************************************************************************)
(* The compose job runner of tutor (tutor/commands/compose.py) with its    *)
(* development profile (tutor/commands/dev.py), and the backup command.    *)
(*                                                                         *)
(* A string is modelled as the sequence of the chunks it is formatted      *)
(* from: "{}-job".format("lms") is <<"lms", "-job">>, a path is the        *)
(* sequence of its segments, an absolute path starts with the chunk "/".   *)
(* An argument vector is a sequence of such strings.                       *)
(***************************************************************************)
EXTENDS Integers, Sequences, FiniteSets, TLC

VARIABLES
    fs,           \* the paths that exist on the host filesystem
    config,       \* the configuration the commands load (tutor_config.load)
    pc,           \* "idle", "exited", or the stage the backup pipeline is at
    cli,          \* the top-level command running or last run
    cli_args,     \* the arguments it was given
    tty,          \* what utils.is_a_tty() answered to it
    argv,         \* the last argument vector handed to utils.docker_compose
    invocations,  \* how many times the command called utils.docker_compose
    toolExit,     \* the exit code the last call returned
    exitStatus,   \* the exit status of the command (0 when it returned)
    error,        \* the exception that ended the command, "none" otherwise
    echoed,       \* the messages the command has printed
    tar,          \* the archive handle: "none", "open", "closed"
    cleanup,      \* what the two dump removals of the backup did
    s3client,     \* whether boto3.client was created
    upload,       \* what s3.upload_file did: "none" when it was not called
    tarAtUpload,  \* the state of the archive handle when upload_file was called
    tarAtRemove   \* the state of the archive handle when os.remove deleted it

vars == <<fs, config, pc, cli, cli_args, tty, argv, invocations, toolExit,
          exitStatus, error, echoed, tar, cleanup, s3client, upload,
          tarAtUpload, tarAtRemove>>

backupVars == <<tar, cleanup, s3client, upload, tarAtUpload, tarAtRemove>>

----------------------------------------------------------------------------
(* Bounds of the model. *)

\* the longest argument list given to dc, run and exec
MaxArgs == 2
\* the longest service list given to start, stop, restart and logs
MaxServices == 1

----------------------------------------------------------------------------
(* Strings and paths. *)

tok(s) == <<s>>

Contains(s, chunk) == \E i \in 1..Len(s) : s[i] = chunk

\* context.root: an absolute directory
root == <<"/", "tutor">>

\* tutor_env.pathjoin: joins the root with a path; joining an absolute path
\* yields that path, as os.path.join does
pathjoin(r, path) ==
    IF path # <<>> /\ Head(path) = "/" THEN path ELSE r \o path

\* tutor_env.data_path
data_path(r, path) == r \o <<"data">> \o path

\* tutor_env.root_dir
root_dir(r) == r

\* bindmounts.get_path: the host directory of a bind-mounted volume
get_path(r, name) == r \o <<"volumes">> \o name

----------------------------------------------------------------------------
(* The development profile. *)

\* DevJobRunner gone wrong: the files of local/ (base, override) before the
\* files of dev/ (base, override)
DevJobRunner_local_first(cfg) ==
    [ project_name |-> cfg.DEV_PROJECT_NAME,
      docker_compose_files |->
        << pathjoin(root, <<"local", "docker-compose.yml">>),
           pathjoin(root, <<"local", "docker-compose.override.yml">>),
           pathjoin(root, <<"dev", "docker-compose.yml">>),
           pathjoin(root, <<"dev", "docker-compose.override.yml">>) >>,
      docker_compose_job_files |->
        << pathjoin(root, <<"local", "docker-compose.jobs.yml">>),
           pathjoin(root, <<"local", "docker-compose.jobs.override.yml">>),
           pathjoin(root, <<"dev", "docker-compose.jobs.yml">>),
           pathjoin(root, <<"dev", "docker-compose.jobs.override.yml">>) >> ]

\* DevJobRunner.__init__: the runner a command of the dev group constructs
DevJobRunner(cfg) ==
    [ project_name |-> cfg.DEV_PROJECT_NAME,
      docker_compose_files |->
        << pathjoin(root, <<"local", "docker-compose.yml">>),
           pathjoin(root, <<"dev", "docker-compose.yml">>),
           pathjoin(root, <<"local", "docker-compose.override.yml">>),
           pathjoin(root, <<"dev", "docker-compose.override.yml">>) >>,
      docker_compose_job_files |->
        << pathjoin(root, <<"local", "docker-compose.jobs.yml">>),
           pathjoin(root, <<"dev", "docker-compose.jobs.yml">>),
           pathjoin(root, <<"local", "docker-compose.jobs.override.yml">>),
           pathjoin(root, <<"dev", "docker-compose.jobs.override.yml">>) >> ]

\* DevContext.job_runner
job_runner(cfg) == DevJobRunner(cfg)

----------------------------------------------------------------------------
(* ComposeJobRunner. *)

\* existing_file_args gone wrong: no os.path.exists test
RECURSIVE all_file_args(_, _)
all_file_args(files, fsys) ==
    IF files = <<>> THEN <<>>
    ELSE <<tok("-f"), Head(files)>> \o all_file_args(Tail(files), fsys)

\* the loop of docker_compose (and of run_job): -f path for each path of
\* files, in order, that exists in fsys
RECURSIVE existing_file_args(_, _)
existing_file_args(files, fsys) ==
    IF files = <<>> THEN <<>>
    ELSE (IF Head(files) \in fsys THEN <<tok("-f"), Head(files)>> ELSE <<>>)
         \o existing_file_args(Tail(files), fsys)

\* ComposeJobRunner.docker_compose: the vector handed to utils.docker_compose
docker_compose(self, fsys, command) ==
    existing_file_args(self.docker_compose_files, fsys)
    \o <<tok("--project-name"), self.project_name>>
    \o command

\* the paths of the job file set, each joined to the root again
RECURSIVE job_paths(_)
job_paths(files) ==
    IF files = <<>> THEN <<>>
    ELSE <<pathjoin(root, Head(files))>> \o job_paths(Tail(files))

\* run_job gone wrong: -T when a terminal is attached, none otherwise
run_job_T_on_tty(self, fsys, isatty, service, command) ==
    docker_compose(self, fsys,
        existing_file_args(job_paths(self.docker_compose_job_files), fsys)
        \o <<tok("run"), tok("--rm")>>
        \o (IF isatty THEN <<tok("-T")>> ELSE <<>>)
        \o <<service \o <<"-job">>, tok("sh"), tok("-e"), tok("-c"), command>>)

\* ComposeJobRunner.run_job: the vector handed to utils.docker_compose
run_job(self, fsys, isatty, service, command) ==
    docker_compose(self, fsys,
        existing_file_args(job_paths(self.docker_compose_job_files), fsys)
        \o <<tok("run"), tok("--rm")>>
        \o (IF ~isatty THEN <<tok("-T")>> ELSE <<>>)
        \o <<service \o <<"-job">>, tok("sh"), tok("-e"), tok("-c"), command>>)

----------------------------------------------------------------------------
(* Inputs. *)

ExitCodes == {0, 1}

BaseConfig(lms, cms) ==
    [ DEV_PROJECT_NAME |-> tok("tutor_dev"),
      RUN_LMS |-> lms, RUN_CMS |-> cms,
      LMS_HOST |-> tok("lms.example.com"),
      MYSQL_ROOT_PASSWORD |-> tok("secret") ]

S3Keys ==
    [ BACKUP_S3_ACCESS_KEY |-> tok("access"),
      BACKUP_S3_SECRET_KEY |-> tok("secretkey"),
      BACKUP_S3_BUCKET_NAME |-> tok("bucket") ]

DefaultConfig == BaseConfig(TRUE, TRUE)

\* what restart reads: RUN_LMS and RUN_CMS
RestartConfigs == { BaseConfig(lms, cms) : lms \in BOOLEAN, cms \in BOOLEAN }

\* what backup reads: BACKUP_ENABLED absent, false or true, each with and
\* without the three BACKUP_S3_* keys
BackupConfigs ==
    { DefaultConfig @@ flag @@ keys :
        flag \in { <<>>, [BACKUP_ENABLED |-> FALSE], [BACKUP_ENABLED |-> TRUE] },
        keys \in { <<>>, S3Keys } }

\* no command is running: no configuration is loaded
NoConfig == <<>>

ServiceNames == {"lms", "openedx", "all"}

JobServices == {tok("lms"), tok("cms")}

ShellCommands == {tok("./manage.py lms createsuperuser")}

Timestamps == {"20240101_000000"}

VolumeNames == {tok("data"), tok("src")}

\* the arguments of dc, run and exec: a bare volume, a host:container
\* volume, and an argument that is no volume
ArgTokens ==
    { <<"--volume=">> \o v : v \in VolumeNames }
    \cup { <<"--volume=", "/host", ":", "/container">>, tok("lms") }

SeqsUpTo(S, n) == UNION { [1..k -> S] : k \in 0..n }

ServiceFiles == { DevJobRunner(DefaultConfig).docker_compose_files[i] : i \in 1..4 }

JobFiles == { DevJobRunner(DefaultConfig).docker_compose_job_files[i] : i \in 1..4 }

VolumeDirs == { get_path(root, v) : v \in VolumeNames }

\* what `config save` renders is there from the start: the two base files of
\* local/; every other compose file is optional
Rendered ==
    { pathjoin(root, <<"local", "docker-compose.yml">>),
      pathjoin(root, <<"local", "docker-compose.jobs.yml">>) }

Optional == (ServiceFiles \cup JobFiles \cup VolumeDirs) \ Rendered

\* the data directories and the configuration file the archive takes in
DataFiles ==
    { data_path(root, tok("cms")), data_path(root, tok("lms")),
      data_path(root, tok("openedx-media")), root_dir(root) \o tok("/config.yml") }

----------------------------------------------------------------------------
(* The state after the environment was rendered and before any command. *)

Init ==
    /\ \E present \in SUBSET Optional : fs = Rendered \cup DataFiles \cup present
    /\ config = NoConfig
    /\ pc = "idle"
    /\ cli = "none"
    /\ cli_args = <<>>
    /\ tty = FALSE
    /\ argv = <<>>
    /\ invocations = 0
    /\ toolExit = 0
    /\ exitStatus = 0
    /\ error = "none"
    /\ echoed = {}
    /\ tar = "none"
    /\ cleanup = [sudo |-> "none", rm |-> "none"]
    /\ s3client = FALSE
    /\ upload = "none"
    /\ tarAtUpload = "none"
    /\ tarAtRemove = "none"

\* a command starts: a fresh process that loads the configuration
Started(name, cfg, args, isatty) ==
    /\ pc = "idle"
    /\ config' = cfg
    /\ cli' = name
    /\ cli_args' = args
    /\ tty' = isatty

NoBackup ==
    /\ tar' = "none"
    /\ cleanup' = [sudo |-> "none", rm |-> "none"]
    /\ s3client' = FALSE
    /\ upload' = "none"
    /\ tarAtUpload' = "none"
    /\ tarAtRemove' = "none"

\* utils.docker_compose(*args): spawns the tool, blocks until it exits and
\* returns its exit code; it raises nothing on a non-zero exit
utils_docker_compose(args, rc) ==
    /\ argv' = args
    /\ toolExit' = rc
    /\ invocations' = invocations + 1

\* a click command whose callback returned: standalone mode exits 0
Returned ==
    /\ pc' = "exited"
    /\ exitStatus' = 0
    /\ error' = "none"

\* a click command whose callback raised: the process exits 1
Raised(kind) ==
    /\ pc' = "exited"
    /\ exitStatus' = 1
    /\ error' = kind

----------------------------------------------------------------------------
(* The environment: compose files and bind-mount directories come and go    *)
(* between the calls that read them (before a command, and between the two  *)
(* calls the backup makes on one runner).                                   *)

Watched ==
    IF pc = "idle" THEN Optional
    ELSE IF pc = "mysql" THEN Optional \cap ServiceFiles
    ELSE {}

FsCreate ==
    \E p \in Watched \ fs :
        /\ fs' = fs \cup {p}
        /\ UNCHANGED <<config, pc, cli, cli_args, tty, argv, invocations,
                       toolExit, exitStatus, error, echoed, backupVars>>

FsDelete ==
    \E p \in Watched \cap fs :
        /\ fs' = fs \ {p}
        /\ UNCHANGED <<config, pc, cli, cli_args, tty, argv, invocations,
                       toolExit, exitStatus, error, echoed, backupVars>>

\* the process of the last command is gone; the next one starts afresh (a
\* later backup has another timestamp: the dumps and the archive of this one
\* play no further part)
Exit ==
    /\ pc = "exited"
    /\ pc' = "idle"
    /\ cli' = "none"
    /\ cli_args' = <<>>
    /\ tty' = FALSE
    /\ argv' = <<>>
    /\ invocations' = 0
    /\ toolExit' = 0
    /\ exitStatus' = 0
    /\ error' = "none"
    /\ echoed' = {}
    /\ NoBackup
    /\ fs' = fs \cap (Rendered \cup DataFiles \cup Optional)
    /\ config' = NoConfig

----------------------------------------------------------------------------
(* The commands that make one call. *)

\* a command that builds `command` and calls runner.docker_compose with it,
\* dropping the exit code the call returns
OneCall(name, cfg, args, command) ==
    /\ Started(name, cfg, args, FALSE)
    /\ \E rc \in ExitCodes :
        utils_docker_compose(docker_compose(job_runner(cfg), fs, command), rc)
    /\ Returned
    /\ echoed' = {}
    /\ NoBackup
    /\ UNCHANGED fs

Tokens(names) == [ i \in 1..Len(names) |-> tok(names[i]) ]

start_command(skip_build, detach, services) ==
    <<tok("up"), tok("--remove-orphans")>>
    \o (IF ~skip_build THEN <<tok("--build")>> ELSE <<>>)
    \o (IF detach THEN <<tok("-d")>> ELSE <<>>)
    \o Tokens(services)

start ==
    \E skip_build \in BOOLEAN, detach \in BOOLEAN,
       services \in SeqsUpTo(ServiceNames, MaxServices) :
        /\ pc = "idle"
        /\ OneCall("start", DefaultConfig, Tokens(services),
                   start_command(skip_build, detach, services))

stop ==
    \E services \in SeqsUpTo(ServiceNames, MaxServices) :
        /\ pc = "idle"
        /\ OneCall("stop", DefaultConfig, Tokens(services),
                   <<tok("stop")>> \o Tokens(services))

RECURSIVE restart_services(_, _)
restart_services(cfg, services) ==
    IF services = <<>> THEN <<>>
    ELSE (IF Head(services) = "openedx"
          THEN (IF cfg.RUN_LMS THEN <<tok("lms"), tok("lms-worker")>> ELSE <<>>)
               \o (IF cfg.RUN_CMS THEN <<tok("cms"), tok("cms-worker")>> ELSE <<>>)
          ELSE <<tok(Head(services))>>)
         \o restart_services(cfg, Tail(services))

restart_command(cfg, services) ==
    <<tok("restart")>>
    \o (IF \E i \in 1..Len(services) : services[i] = "all" THEN <<>>
        ELSE restart_services(cfg, services))

restart ==
    \E cfg \in RestartConfigs, services \in SeqsUpTo(ServiceNames, MaxServices) :
        /\ pc = "idle"
        /\ OneCall("restart", cfg, Tokens(services), restart_command(cfg, services))

\* createuser and the job scripts: one job run through runner.run_job
job ==
    \E service \in JobServices, command \in ShellCommands, isatty \in BOOLEAN :
        /\ Started("job", DefaultConfig, <<service, command>>, isatty)
        /\ \E rc \in ExitCodes :
            utils_docker_compose(
                run_job(job_runner(DefaultConfig), fs, isatty, service, command), rc)
        /\ Returned
        /\ echoed' = {}
        /\ NoBackup
        /\ UNCHANGED fs

----------------------------------------------------------------------------
(* dc, and run, exec and logs that go through it. *)

IsVolumeOption(arg) == Len(arg) > 1 /\ Head(arg) = "--volume="

\* bindmounts.parse_volumes: the values of the volume options, and the
\* other arguments, both in the order given
RECURSIVE parse_volumes(_)
parse_volumes(args) ==
    IF args = <<>> THEN [volumes |-> <<>>, non_volume_args |-> <<>>]
    ELSE LET rest == parse_volumes(Tail(args))
         IN  IF IsVolumeOption(Head(args))
             THEN [rest EXCEPT !.volumes = <<Tail(Head(args))>> \o @]
             ELSE [rest EXCEPT !.non_volume_args = <<Head(args)>> \o @]

\* dc_volume_args gone wrong: only the first volume is tested for its host
\* directory
RECURSIVE dc_volume_args_first(_, _, _)
dc_volume_args_first(volumes, fsys, first) ==
    IF volumes = <<>> THEN [raised |-> FALSE, volume_args |-> <<>>]
    ELSE LET volume_arg == Head(volumes)
             host_bind_path == get_path(root, volume_arg)
             rest == dc_volume_args_first(Tail(volumes), fsys, FALSE)
         IN  IF ~Contains(volume_arg, ":")
             THEN IF first /\ host_bind_path \notin fsys
                  THEN [raised |-> TRUE, volume_args |-> <<>>]
                  ELSE [rest EXCEPT !.volume_args =
                          IF rest.raised THEN <<>>
                          ELSE <<tok("--volume"),
                                 host_bind_path \o <<":">> \o volume_arg>> \o @]
             ELSE [rest EXCEPT !.volume_args =
                     IF rest.raised THEN <<>>
                     ELSE <<tok("--volume"), volume_arg>> \o @]

\* the loop of dc_command over the volumes: the --volume arguments it
\* builds, or raised when a bare volume has no host directory; `first`
\* tells the first volume of the list from the ones after it
RECURSIVE dc_volume_args(_, _, _)
dc_volume_args(volumes, fsys, first) ==
    IF volumes = <<>> THEN [raised |-> FALSE, volume_args |-> <<>>]
    ELSE LET volume_arg == Head(volumes)
             host_bind_path == get_path(root, volume_arg)
             rest == dc_volume_args(Tail(volumes), fsys, FALSE)
         IN  IF ~Contains(volume_arg, ":")
             THEN IF host_bind_path \notin fsys
                  THEN [raised |-> TRUE, volume_args |-> <<>>]
                  ELSE [rest EXCEPT !.volume_args =
                          IF rest.raised THEN <<>>
                          ELSE <<tok("--volume"),
                                 host_bind_path \o <<":">> \o volume_arg>> \o @]
             ELSE [rest EXCEPT !.volume_args =
                     IF rest.raised THEN <<>>
                     ELSE <<tok("--volume"), volume_arg>> \o @]

\* dc_command(command, args), reached from the command `name`
dc_command(name, isatty, command, args) ==
    LET parsed == parse_volumes(args)
        built == dc_volume_args(parsed.volumes, fs, TRUE)
    IN  /\ Started(name, DefaultConfig, args, isatty)
        /\ IF built.raised
           THEN /\ Raised("MissingBindMount")
                /\ echoed' = {"Bind-mount volume directory does not exist"}
                /\ UNCHANGED <<argv, toolExit, invocations>>
           ELSE /\ \E rc \in ExitCodes :
                    utils_docker_compose(
                        docker_compose(job_runner(DefaultConfig), fs,
                            <<command>> \o built.volume_args \o parsed.non_volume_args),
                        rc)
                /\ Returned
                /\ echoed' = {}
        /\ NoBackup
        /\ UNCHANGED fs

dc ==
    \E args \in SeqsUpTo(ArgTokens, MaxArgs) :
        /\ pc = "idle"
        /\ dc_command("dc", FALSE, tok("ps"), args)

run ==
    \E args \in SeqsUpTo(ArgTokens, MaxArgs) \ {<<>>}, isatty \in BOOLEAN :
        /\ pc = "idle"
        /\ dc_command("run", isatty, tok("run"),
               <<tok("--rm")>> \o (IF ~isatty THEN <<tok("-T")>> ELSE <<>>) \o args)

execute ==
    \E args \in SeqsUpTo(ArgTokens, MaxArgs) \ {<<>>} :
        /\ pc = "idle"
        /\ dc_command("exec", FALSE, tok("exec"), args)

logs ==
    \E follow \in BOOLEAN, tail \in {"none", "10"},
       service \in SeqsUpTo(ServiceNames, MaxServices) :
        /\ pc = "idle"
        /\ dc_command("logs", FALSE, tok("logs"),
               (IF follow THEN <<tok("--follow")>> ELSE <<>>)
               \o (IF tail # "none" THEN <<tok("--tail"), tok(tail)>> ELSE <<>>)
               \o Tokens(service))

----------------------------------------------------------------------------
(* The backup pipeline. *)

mongodb_command(now) ==
    << tok("exec"), tok("mongodb"), tok("mongodump"),
       <<"--out=/data/db/dump_", now, ".mongodb">> >>

mysql_command(cfg, now) ==
    << tok("exec"), tok("mysql"), tok("mysqldump"), tok("--all-databases"),
       tok("-u"), tok("root"),
       <<"--password=">> \o cfg.MYSQL_ROOT_PASSWORD,
       <<"--result-file=/var/lib/mysql/dump_", now, ".sql">> >>

mongodb_dump_path(now) == data_path(root, <<"mongodb/dump_", now, ".mongodb">>)

mysql_dump_path(now) == data_path(root, <<"mysql/dump_", now, ".sql">>)

file_name(cfg, now) == cfg.LMS_HOST \o <<"_", now, ".tar.gz">>

backup_path(cfg, now) == data_path(root, <<"backup">> \o file_name(cfg, now))

dirFiles(now) ==
    << mongodb_dump_path(now), mysql_dump_path(now),
       data_path(root, tok("cms")), data_path(root, tok("lms")),
       data_path(root, tok("openedx-media")),
       root_dir(root) \o tok("/config.yml") >>

\* the timestamp of the running backup
Now == cli_args[1]

\* an exception leaves the `with tarfile.open(...)` block: the handle is
\* closed on the way out
WithExit == tar' = IF tar = "open" THEN "closed" ELSE tar

\* backup, lines 308-310: the timestamp, the configuration, the runner
backup ==
    \E now \in Timestamps, cfg \in BackupConfigs :
        /\ Started("backup", cfg, <<now>>, FALSE)
        /\ pc' = "mongo"
        /\ argv' = <<>>
        /\ invocations' = 0
        /\ toolExit' = 0
        /\ exitStatus' = 0
        /\ error' = "none"
        /\ echoed' = {}
        /\ NoBackup
        /\ UNCHANGED fs

\* stage 1: mongodump in the mongodb container; the dump appears under the
\* data directory when the tool succeeds. The exit code is dropped.
export_mongodb ==
    /\ pc = "mongo"
    /\ \E rc \in ExitCodes :
        /\ utils_docker_compose(
               docker_compose(job_runner(config), fs, mongodb_command(Now)), rc)
        /\ fs' = IF rc = 0 THEN fs \cup {mongodb_dump_path(Now)} ELSE fs
    /\ echoed' = echoed \cup {"Exported mongo databases successfully"}
    /\ pc' = "mysql"
    /\ UNCHANGED <<config, cli, cli_args, tty, exitStatus, error, backupVars>>

\* stage 2: mysqldump in the mysql container. The exit code is dropped.
export_mysql ==
    /\ pc = "mysql"
    /\ \E rc \in ExitCodes :
        /\ utils_docker_compose(
               docker_compose(job_runner(config), fs, mysql_command(config, Now)), rc)
        /\ fs' = IF rc = 0 THEN fs \cup {mysql_dump_path(Now)} ELSE fs
    /\ echoed' = echoed \cup {"Exported mysql databases successfully"}
    /\ pc' = "archive"
    /\ UNCHANGED <<config, cli, cli_args, tty, exitStatus, error, backupVars>>

\* stage 3: tarfile.open creates the archive, tar.add takes each entry in;
\* an entry that is missing, or an I/O error, raises out of the with block.
\* On success the handle stays open: the stages after it run inside the block.
archive ==
    /\ pc = "archive"
    /\ \E io \in {"ok", "oserror"} :
        IF io = "oserror"
        THEN /\ Raised("OSError")
             /\ UNCHANGED <<fs, tar, echoed>>
        ELSE /\ fs' = fs \cup {backup_path(config, Now)}
             /\ IF \A i \in 1..Len(dirFiles(Now)) : dirFiles(Now)[i] \in fs
                THEN /\ tar' = "open"
                     /\ echoed' = echoed \cup {"Created backup file successfully"}
                     /\ pc' = "cleanup"
                     /\ UNCHANGED <<exitStatus, error>>
                ELSE /\ tar' = "closed"
                     /\ Raised("FileNotFoundError")
                     /\ UNCHANGED echoed
    /\ UNCHANGED <<config, cli, cli_args, tty, argv, invocations, toolExit,
                   cleanup, s3client, upload, tarAtUpload, tarAtRemove>>

\* stage 4: sudo rm -rf of the mongodb dump (its exit code is not looked
\* at; a missing sudo raises FileNotFoundError, an OSError), then os.remove
\* of the mysql dump when it exists. OSError is caught and printed.
cleanup_dumps ==
    /\ pc = "cleanup"
    /\ \E sudo \in {"ok", "nonzero", "unavailable"} :
        IF sudo = "unavailable"
        THEN /\ cleanup' = [sudo |-> sudo, rm |-> "none"]
             /\ echoed' = echoed \cup {"Delete mongodb or mysql dump files are failed"}
             /\ UNCHANGED fs
        ELSE LET kept == IF sudo = "ok" THEN fs \ {mongodb_dump_path(Now)} ELSE fs
             IN  IF mysql_dump_path(Now) \in kept
                 THEN \E rm \in {"ok", "oserror"} :
                        /\ cleanup' = [sudo |-> sudo, rm |-> rm]
                        /\ fs' = IF rm = "ok" THEN kept \ {mysql_dump_path(Now)} ELSE kept
                        /\ echoed' = IF rm = "ok" THEN echoed
                                     ELSE echoed \cup {"Delete mongodb or mysql dump files are failed"}
                 ELSE /\ cleanup' = [sudo |-> sudo, rm |-> "none"]
                      /\ fs' = kept
                      /\ UNCHANGED echoed
    /\ pc' = "upload"
    /\ UNCHANGED <<config, cli, cli_args, tty, argv, invocations, toolExit,
                   exitStatus, error, tar, s3client, upload, tarAtUpload, tarAtRemove>>

\* upload_enabled gone wrong: the upload is on when the flag is absent
upload_enabled_by_default(cfg) ==
    "BACKUP_ENABLED" \notin DOMAIN cfg \/ cfg.BACKUP_ENABLED

\* lines 360-361: the flag that gates the upload
upload_enabled(cfg) ==
    "BACKUP_ENABLED" \in DOMAIN cfg /\ cfg.BACKUP_ENABLED

\* stage 5, still inside the with block: the three keys are read (KeyError
\* when one is absent), the client is created, upload_file is called. It
\* succeeds, or raises FileNotFoundError (the archive is gone),
\* NoCredentialsError, or the error of a refused or failed transfer
\* (S3UploadFailedError), which nothing catches.
upload_stage ==
    /\ pc = "upload"
    /\ IF ~upload_enabled(config)
       THEN /\ pc' = "close"
            /\ UNCHANGED <<fs, exitStatus, error, echoed, tar, s3client, upload,
                           tarAtUpload, tarAtRemove>>
       ELSE IF ~({"BACKUP_S3_ACCESS_KEY", "BACKUP_S3_SECRET_KEY",
                  "BACKUP_S3_BUCKET_NAME"} \subseteq DOMAIN config)
       THEN /\ Raised("KeyError")
            /\ WithExit
            /\ UNCHANGED <<fs, echoed, s3client, upload, tarAtUpload, tarAtRemove>>
       ELSE /\ s3client' = TRUE
            /\ tarAtUpload' = tar
            /\ \E outcome \in {"ok", "notfound", "nocredentials", "failed"} :
                /\ upload' = outcome
                /\ outcome = "ok" =>
                    /\ echoed' = echoed \cup {"Uploaded backup file to S3 successfully"}
                    /\ fs' = fs \ {backup_path(config, Now)}
                    /\ tarAtRemove' = IF backup_path(config, Now) \in fs
                                      THEN tar ELSE tarAtRemove
                    /\ pc' = "close"
                    /\ UNCHANGED <<exitStatus, error, tar>>
                /\ outcome = "notfound" =>
                    /\ echoed' = echoed \cup {"The backup file was not found"}
                    /\ fs' = fs \ {backup_path(config, Now)}
                    /\ pc' = "close"
                    /\ UNCHANGED <<exitStatus, error, tar, tarAtRemove>>
                /\ outcome = "nocredentials" =>
                    /\ echoed' = echoed \cup {"The S3 credential is not available"}
                    /\ pc' = "close"
                    /\ UNCHANGED <<fs, exitStatus, error, tar, tarAtRemove>>
                /\ outcome = "failed" =>
                    /\ Raised("S3UploadFailedError")
                    /\ WithExit
                    /\ UNCHANGED <<fs, echoed, tarAtRemove>>
    /\ UNCHANGED <<config, cli, cli_args, tty, argv, invocations, toolExit, cleanup>>

\* the with block ends: the archive is finalized and closed, backup returns
close_archive ==
    /\ pc = "close"
    /\ tar' = "closed"
    /\ Returned
    /\ UNCHANGED <<fs, config, cli, cli_args, tty, argv, invocations, toolExit,
                   echoed, cleanup, s3client, upload, tarAtUpload, tarAtRemove>>

----------------------------------------------------------------------------

Next ==
    \/ FsCreate
    \/ FsDelete
    \/ Exit
    \/ start
    \/ stop
    \/ restart
    \/ job
    \/ dc
    \/ run
    \/ execute
    \/ logs
    \/ backup
    \/ export_mongodb
    \/ export_mysql
    \/ archive
    \/ cleanup_dumps
    \/ upload_stage
    \/ close_archive

Spec == Init /\ [][Next]_vars

----------------------------------------------------------------------------
(* What the claims speak of, written out apart from the operators above. *)

LocalBase == <<"/", "tutor", "local", "docker-compose.yml">>
DevBase == <<"/", "tutor", "dev", "docker-compose.yml">>
LocalOverride == <<"/", "tutor", "local", "docker-compose.override.yml">>
DevOverride == <<"/", "tutor", "dev", "docker-compose.override.yml">>
LocalJobs == <<"/", "tutor", "local", "docker-compose.jobs.yml">>
DevJobs == <<"/", "tutor", "dev", "docker-compose.jobs.yml">>
LocalJobsOverride == <<"/", "tutor", "local", "docker-compose.jobs.override.yml">>
DevJobsOverride == <<"/", "tutor", "dev", "docker-compose.jobs.override.yml">>

\* the two file sets in the order dev.py declares them
ServiceOrder == <<LocalBase, DevBase, LocalOverride, DevOverride>>
JobOrder == <<LocalJobs, DevJobs, LocalJobsOverride, DevJobsOverride>>

\* where `-f path` stands in the vector v, 0 when it does not
FlagAt(v, path) ==
    LET at == { i \in 1..(Len(v) - 1) : v[i] = <<"-f">> /\ v[i + 1] = path }
    IN  IF at = {} THEN 0 ELSE CHOOSE i \in at : \A j \in at : i <= j

\* -f p for the paths p of order that exist in fsys, in that order
Flags(order, fsys) ==
    LET there == SelectSeq(order, LAMBDA p : p \in fsys)
    IN  [ i \in 1..(2 * Len(there)) |->
            IF i % 2 = 1 THEN <<"-f">> ELSE there[i \div 2] ]

ProjectArgs == << <<"--project-name">>, <<"tutor_dev">> >>

\* the vector every call starts with, given the files that exist
Prefix(fsys) == Flags(ServiceOrder, fsys) \o ProjectArgs

StartsWith(v, prefix) ==
    Len(v) >= Len(prefix) /\ SubSeq(v, 1, Len(prefix)) = prefix

Archive == <<"/", "tutor", "data", "backup", "lms.example.com", "_",
             "20240101_000000", ".tar.gz">>

UploadOn == "BACKUP_ENABLED" \in DOMAIN config /\ config.BACKUP_ENABLED

\* args holds a bare volume whose host directory is not in fsys
MissingBareVolume(args, fsys) ==
    \E i \in 1..Len(args) :
        /\ Len(args[i]) > 1
        /\ args[i][1] = "--volume="
        /\ \A k \in 2..Len(args[i]) : args[i][k] # ":"
        /\ <<"/", "tutor", "volumes">> \o Tail(args[i]) \notin fsys

CleanupFailed ==
    cleanup.sudo \in {"nonzero", "unavailable"} \/ cleanup.rm = "oserror"

----------------------------------------------------------------------------
(* The claims. *)

\* C1: in a backup with the upload enabled, upload_file is called and the
\* local archive is deleted only once the archive has been finalized and
\* closed, never while it is open for writing.
C1_UploadAfterArchiveClosed ==
    /\ upload # "none" => tarAtUpload = "closed"
    /\ tarAtRemove # "none" => tarAtRemove = "closed"

\* C2: when an export of the backup exits non-zero the pipeline aborts with
\* an error: no later stage runs and the export's confirmation is not
\* printed.
C2_FailedExportAborts ==
    (cli = "backup" /\ invocations > 0 /\ toolExit # 0) =>
        /\ pc = "exited"
        /\ error # "none"
        /\ invocations = 1 =>
             "Exported mongo databases successfully" \notin echoed
        /\ invocations = 2 =>
             "Exported mysql databases successfully" \notin echoed

\* C3 as stated: in every argument vector the -f entry of the local override
\* file precedes the -f entry of the dev base file whenever both are there
\* (and likewise for the job files).
C3_LocalOverrideBeforeDevBase ==
    /\ (FlagAt(argv, LocalOverride) > 0 /\ FlagAt(argv, DevBase) > 0)
         => FlagAt(argv, LocalOverride) < FlagAt(argv, DevBase)
    /\ (FlagAt(argv, LocalJobsOverride) > 0 /\ FlagAt(argv, DevJobs) > 0)
         => FlagAt(argv, LocalJobsOverride) < FlagAt(argv, DevJobs)

\* C3 as amended: the development profile declares both file sets in the
\* order local base, dev base, local override, dev override; in every
\* argument vector the -f entries that are there stand in that order, so
\* the dev base file precedes the local override file.
C3_BasesBeforeOverrides ==
    \A order \in {ServiceOrder, JobOrder} :
        \A i \in 1..4, j \in 1..4 :
            (i < j /\ FlagAt(argv, order[i]) > 0 /\ FlagAt(argv, order[j]) > 0)
                => FlagAt(argv, order[i]) < FlagAt(argv, order[j])

\* a job was run while the dev base and the local override files of both
\* file sets existed
C3_Witness ==
    /\ cli = "job"
    /\ pc = "exited"
    /\ FlagAt(argv, DevBase) > 0 /\ FlagAt(argv, LocalOverride) > 0
    /\ FlagAt(argv, DevJobs) > 0 /\ FlagAt(argv, LocalJobsOverride) > 0

\* C4: whatever files were created and deleted before it, each call hands
\* over -f p for exactly the paths p of the service file set that exist at
\* the moment of the call, in file-set order, then --project-name and the
\* project name, then the caller's command tokens (for stop: stop and the
\* services; for the two exports of the backup: exec and the dump command).
C4_FilesExistingAtCall ==
    [][ invocations' = invocations + 1 =>
          /\ StartsWith(argv', Prefix(fs))
          /\ Len(argv') > Len(Prefix(fs))
          /\ \A p \in (ServiceFiles \ fs) : FlagAt(argv', p) = 0
          /\ cli' = "stop" => argv' = Prefix(fs) \o << <<"stop">> >> \o cli_args'
          /\ cli' = "backup" => argv'[Len(Prefix(fs)) + 1] = <<"exec">>
      ]_vars

\* the second call of a backup, made when the dev base file does not exist
\* and the local override file does
C4_Witness ==
    /\ cli = "backup"
    /\ pc = "archive"
    /\ invocations = 2
    /\ FlagAt(argv, DevBase) = 0
    /\ FlagAt(argv, LocalOverride) > 0
    /\ DevBase \notin fs

\* C5: the exit status of start, stop, restart, dc, run, exec and logs is
\* the exit code the orchestration tool returned.
C5_ExitStatusIsToolExit ==
    (pc = "exited" /\ invocations > 0
        /\ cli \in {"start", "stop", "restart", "dc", "run", "exec", "logs"})
      => exitStatus = toolExit

\* C6: an upload that was attempted and failed, whatever the cause, is
\* printed, the backup ends normally, and the local archive is still there;
\* the archive is deleted only after an upload that succeeded.
C6_UploadFailureNotFatal ==
    /\ (pc = "exited" /\ upload \in {"notfound", "nocredentials", "failed"}) =>
          /\ error = "none"
          /\ exitStatus = 0
          /\ \/ "The backup file was not found" \in echoed
             \/ "The S3 credential is not available" \in echoed
    /\ (pc = "exited" /\ upload \in {"nocredentials", "failed"}) => Archive \in fs
    /\ tarAtRemove # "none" => upload = "ok"

\* C7: when BACKUP_ENABLED is absent or false, whether or not the three
\* BACKUP_S3_* keys are there, no upload client is created and upload_file
\* is not called; once the archive is created nothing after it raises, and
\* the backup ends with exit status 0 and the local archive on disk.
C7_NoUploadWhenDisabled ==
    (cli = "backup" /\ ~UploadOn) =>
        /\ ~s3client
        /\ upload = "none"
        /\ tarAtRemove = "none"
        /\ tar # "none" => Archive \in fs
        /\ pc \in {"cleanup", "upload", "close"} => tar = "open" /\ error = "none"
        /\ (pc = "exited" /\ "Created backup file successfully" \in echoed) =>
              /\ error = "none"
              /\ exitStatus = 0
              /\ tar = "closed"
              /\ Archive \in fs

\* a backup that ended with BACKUP_ENABLED false and the three keys there
C7_Witness ==
    /\ cli = "backup"
    /\ pc = "exited"
    /\ "BACKUP_ENABLED" \in DOMAIN config /\ ~config.BACKUP_ENABLED
    /\ "BACKUP_S3_ACCESS_KEY" \in DOMAIN config
    /\ "Created backup file successfully" \in echoed
    /\ Archive \in fs

\* C8: dc, run, exec or logs given a bare volume whose host directory does
\* not exist, wherever it stands among the arguments, fails with the
\* missing bind-mount error and a non-zero status before any call is made;
\* the directory is not created and no argument is handed over.
C8_MissingBindMountFailsFirst ==
    [][ (pc = "idle" /\ pc' = "exited"
            /\ cli' \in {"dc", "run", "exec", "logs"}
            /\ MissingBareVolume(cli_args', fs)) =>
          /\ error' = "MissingBindMount"
          /\ exitStatus' # 0
          /\ invocations' = 0
          /\ argv' = <<>>
          /\ fs' = fs
      ]_vars

\* dc given two bare volumes, the first with its host directory and the
\* second without
C8_Witness ==
    /\ cli = "dc"
    /\ pc = "exited"
    /\ cli_args = << <<"--volume=", "data">>, <<"--volume=", "src">> >>
    /\ <<"/", "tutor", "volumes", "data">> \in fs
    /\ <<"/", "tutor", "volumes", "src">> \notin fs
    /\ error = "MissingBindMount"
    /\ invocations = 0

\* the tokens run_job puts after the file arguments
JobTail ==
    << <<"run">>, <<"--rm">> >>
    \o (IF tty THEN <<>> ELSE << <<"-T">> >>)
    \o << cli_args[1] \o <<"-job">>, <<"sh">>, <<"-e">>, <<"-c">>, cli_args[2] >>

\* C9 as stated: the vector run_job hands over is -f p for the existing
\* job files, then run --rm, -T iff no terminal, <s>-job sh -e -c c, with
\* nothing before or between.
C9_JobVectorAlone ==
    (cli = "job" /\ pc = "exited") => argv = Flags(JobOrder, fs) \o JobTail

\* C9 as amended: run_job goes through docker_compose, so the vector is
\* -f p for the existing service files, --project-name and the project
\* name, and only then -f p for the existing job files, run --rm, -T iff no
\* terminal, <s>-job sh -e -c c.
C9_JobVectorAfterServiceFiles ==
    (cli = "job" /\ pc = "exited") =>
        argv = Prefix(fs) \o Flags(JobOrder, fs) \o JobTail

\* a job run from a terminal, with a dev file of each file set there
C9_Witness ==
    /\ cli = "job"
    /\ pc = "exited"
    /\ tty
    /\ DevBase \in fs
    /\ DevJobs \in fs
    /\ LocalJobsOverride \notin fs

\* C10: a failed removal of a dump (the privileged removal exiting non-zero
\* or being unavailable, or os.remove failing) is printed, does not end the
\* pipeline, and leaves the archive as it is.
C10_CleanupFailureLogged ==
    (cli = "backup" /\ CleanupFailed) =>
        /\ "Delete mongodb or mysql dump files are failed" \in echoed
        /\ pc = "upload" => error = "none" /\ Archive \in fs /\ tar = "open"

====
